---- MODULE Spec2Model ----
(***************************************************************************)
(* State-machine model of the D-RAP / flight-state ingestion repository:   *)
(*   prefect/flows/d_rap_extract.py      grid cycle (rap_extract_flow)     *)
(*   prefect/flows/d_rap_etl/*.py        parse_drap_data, insert_drap_data *)
(*   prefect/flows/flights_capture.py    ingest_flow, fetch_flights,       *)
(*                                       clean_row, insert_batch, cleanup  *)
(*   prefect/flows/db_tools.py           get_pool, get_connection,         *)
(*                                       close_pool, cleanup_old_data      *)
(*   prefect/flows/db_maintain.py        db_maintenance_flow               *)
(*   backend/api/main.py                 the two "latest" read endpoints   *)
(* Time is counted in days (the unit of both retention intervals).         *)
(***************************************************************************)
EXTENDS Integers, Sequences, FiniteSets, TLC

\* ------------------------------------------------------------------ bounds
MaxTime == 2      \* the wall clock runs over 0..MaxTime
NumLat == 2       \* latitude bands kept of transformers.lat (90 in the source)
NumLon == 3       \* longitude bands kept of transformers.long (90 in the source)

\* ------------------------------------------------------- values and helpers
PyNone == "<None>"          \* Python's None where a string is expected
NaT == 0 - 1                  \* a missing timestamp (pd.NaT / None)
NaN == 0 - 999              \* float NaN in a grid cell: NaN > 0 is False

Max(S) == CHOOSE x \in S : \A y \in S : y <= x

\* --------------------------------------------------------------- GridParser
\* transformers.py: the fixed band lists, 89, 87, ... and -178, -174, ...
lat == [i \in 1..NumLat |-> 91 - 2 * i]
long == [j \in 1..NumLon |-> 4 * j - 182]

\* A payload is a sequence of lines.  A comment line is "#" followed by a key,
\* with or without the " :" the parser splits on; a data line has `bars`
\* occurrences of "|" and the numbers that follow the first one.
MetaKeys ==
    <<"Product:", "Product Valid At", "Estimated Recovery Time",
      "X-RAY Message", "X-RAY Warning", "Proton Message">>

MetaName(k) ==
    CASE k = "Product:" -> "product"
      [] k = "Product Valid At" -> "valid_at"
      [] k = "Estimated Recovery Time" -> "recovery_time"
      [] k = "X-RAY Message" -> "xray_message"
      [] k = "X-RAY Warning" -> "xray_warning"
      [] k = "Proton Message" -> "proton_message"

CommentLine(k, sep, v) ==
    [kind |-> "comment", key |-> k, sep |-> sep, val |-> v, bars |-> 0, values |-> <<>>]
RuleLine == [kind |-> "rule", key |-> "", sep |-> FALSE, val |-> "", bars |-> 0, values |-> <<>>]
BlankLine == [kind |-> "blank", key |-> "", sep |-> FALSE, val |-> "", bars |-> 0, values |-> <<>>]
DataLine(n, vs) ==
    [kind |-> "data", key |-> "", sep |-> FALSE, val |-> "", bars |-> n, values |-> vs]

IsMetaKey(k) == \E i \in 1..Len(MetaKeys) : MetaKeys[i] = k

\* line.split("<key> :")[1] raises IndexError when the key is in the line but
\* the text "<key> :" is not ("Product:" is searched and split alike).
CommentRaises(l) ==
    l.kind = "comment" /\ IsMetaKey(l.key) /\ l.key # "Product:" /\ ~l.sep

RECURSIVE MetadataOf(_, _)
MetadataOf(lines, n) ==
    IF n = 0 THEN [k \in {} |-> ""]
    ELSE LET m == MetadataOf(lines, n - 1)
             l == lines[n]
         IN IF l.kind = "comment" /\ IsMetaKey(l.key)
            THEN [k \in DOMAIN m \cup {MetaName(l.key)} |->
                     IF k = MetaName(l.key) THEN l.val ELSE m[k]]
            ELSE m

\* data_rows: only the lines that split on "|" into exactly two parts
DataRows(lines) ==
    LET kept == SelectSeq(lines, LAMBDA l : l.kind = "data" /\ l.bars = 1)
    IN [k \in 1..Len(kept) |-> kept[k].values]

RowWidth(rows) == IF rows = <<>> THEN 0 ELSE Max({Len(rows[k]) : k \in 1..Len(rows)})

\* pd.DataFrame(data_rows, columns=longitudes, index=latitudes): an empty list
\* gives an all-NaN frame; otherwise short rows are padded with NaN to the
\* longest row and the shape must be len(latitudes) x len(longitudes).
FrameRaises(rows) ==
    rows # <<>> /\ (Len(rows) # NumLat \/ RowWidth(rows) # NumLon)

WideFrame(rows) ==
    [i \in 1..NumLat |-> [j \in 1..NumLon |->
        IF rows = <<>> THEN NaN
        ELSE IF j <= Len(rows[i]) THEN rows[i][j] ELSE NaN]]

\* the long frame listed row by row: all longitudes of a latitude together
MeltRowMajor(wide) ==
    [k \in 1..(NumLat * NumLon) |->
        LET i == ((k - 1) \div NumLon) + 1
            j == ((k - 1) % NumLon) + 1
        IN [Latitude |-> lat[i], Longitude |-> long[j], Absorption |-> wide[i][j]]]

\* df_wide.reset_index().melt(id_vars="Latitude", var_name="Longitude",
\* value_name="Absorption"): one block of all latitudes per longitude column.
Melt(wide) ==
    [k \in 1..(NumLat * NumLon) |->
        LET j == ((k - 1) \div NumLat) + 1
            i == ((k - 1) % NumLat) + 1
        IN [Latitude |-> lat[i], Longitude |-> long[j], Absorption |-> wide[i][j]]]

parse_drap_data(data_string) ==
    LET rows == DataRows(data_string) IN
    IF (\E n \in 1..Len(data_string) : CommentRaises(data_string[n])) \/ FrameRaises(rows)
    THEN [raised |-> TRUE, metadata |-> [k \in {} |-> ""], df_long |-> <<>>]
    ELSE [raised |-> FALSE,
          metadata |-> MetadataOf(data_string, Len(data_string)),
          df_long |-> Melt(WideFrame(rows))]

\* ----------------------------------------------------------------- payloads
\* The scenario grid [[1, 0, 5], [3, -2, 7]], continued by a formula when the
\* band counts are larger, and a second grid with other positive cells.
GridA ==
    [i \in 1..NumLat |-> [j \in 1..NumLon |->
        IF i <= 2 /\ j <= 3 THEN <<<<1, 0, 5>>, <<3, -2, 7>>>>[i][j]
        ELSE ((i + j) % 3) - 1]]
GridB ==
    [i \in 1..NumLat |-> [j \in 1..NumLon |-> IF (i + j) % 2 = 0 THEN 4 ELSE 0]]

GridLines(g) == [i \in 1..NumLat |-> DataLine(1, g[i])]

TextOf(m, g) ==
    <<CommentLine("Product:", TRUE, "drap"), CommentLine("Product Valid At", TRUE, m),
      CommentLine("Other", FALSE, ""), RuleLine>> \o GridLines(g) \o <<BlankLine>>
TextNoValid(g) ==
    <<CommentLine("Product:", TRUE, "drap"), RuleLine>> \o GridLines(g)
TextShort(m, g) ==
    <<CommentLine("Product Valid At", TRUE, m)>> \o SubSeq(GridLines(g), 1, NumLat - 1)

\* what the upstream URL may serve at a fetch
Upstream == {TextOf("m1", GridA), TextOf("m2", GridB), TextNoValid(GridA), TextShort("m1", GridA)}

\* Long frames as insert_drap_data reads them (value column "Frequency_MHz"),
\* for callers of load_data other than rap_extract_flow.
FrequencyFrame(g) ==
    LET m == Melt(g) IN
    [k \in 1..Len(m) |-> [Latitude |-> m[k].Latitude, Longitude |-> m[k].Longitude,
                          Frequency_MHz |-> m[k].Absorption]]
DirectFrames == {FrequencyFrame(GridA), FrequencyFrame(GridB)}


\* Payloads for calls of the parser alone.  The k-th data line carries the
\* values 10k+1, 10k+2, ... so that a value names the line and place it came
\* from; a line may also come one value short, one value long, with a second
\* "|" or with none.
ParserRow(k) == [j \in 1..NumLon |-> 10 * k + j]
LineChoices(k) ==
    {DataLine(1, ParserRow(k)),
     DataLine(1, SubSeq(ParserRow(k), 1, NumLon - 1)),
     DataLine(1, Append(ParserRow(k), 10 * k)),
     DataLine(2, ParserRow(k)),
     DataLine(0, ParserRow(k))}

RECURSIVE Bodies(_)
Bodies(n) ==
    IF n = 0 THEN {<<>>}
    ELSE {Append(b, l) : b \in Bodies(n - 1), l \in LineChoices(n)}

Headers ==
    {<<>>,
     <<CommentLine("Product Valid At", TRUE, "m1")>>,
     <<CommentLine("Product Valid At", FALSE, "m1")>>,
     <<CommentLine("Product:", FALSE, "drap"), CommentLine("Other", FALSE, "x")>>,
     <<CommentLine("Other", TRUE, "x"), RuleLine, BlankLine>>}

ParserTexts == {h \o b : h \in Headers, b \in UNION {Bodies(n) : n \in 0..(NumLat + 1)}}

\* ------------------------------------------------------------------- state
FlowIds == {"f1", "f2"}     \* executions of rap_extract_flow
Direct == "direct"          \* a run of the load_data task outside that flow
Callers == FlowIds \cup {Direct}

VARIABLES
    now,                \* the wall clock (datetime.now / NOW()), in days
    drap_region,        \* the committed rows of table drap_region
    data_last_updated,  \* the Prefect Variable "data_last_updated"
    flow,               \* per rap_extract_flow run: where it is and its locals
    load,               \* per load_data run: where it is and its locals
    resp_drap,          \* the last response of GET /api/v1/drap/latest
    last_purge,         \* the last run of a retention purge
    flight_states,      \* the committed rows of table flight_states
    partitions,         \* the partitions of flight_states that exist
    batch_result,       \* how the last insert_batch run ended
    resp_flights,       \* the last response of GET /api/v1/flight-states/latest
    first_insert,       \* per stored (time, icao24): the attributes first submitted
    parsed,             \* the last call of parse_drap_data: its argument and result
    ingest,             \* the ingest_flow run: where it is and its locals
    pool,               \* db_tools._pool: 0 for None, else the number of the pool
    pools,              \* the state of every pool created so far, by number
    created,            \* the pools created since close_pool last began
    op,                 \* per operation that uses get_connection: where it is
    closer              \* the close_pool call: where it is and the pool it closes

gridVars == <<drap_region, data_last_updated, flow, load, resp_drap>>
flightVars == <<flight_states, partitions, batch_result, resp_flights, first_insert>>
poolVars == <<pool, pools, created, op, closer>>
vars == <<now, gridVars, last_purge, flightVars, parsed, ingest, poolVars>>

\* ---------------------------------------------------------- db_tools, state
OpIds == {"o1", "o2"}       \* operations that run at once on one event loop
MaxPools == 2               \* create_pool calls that succeed in a behaviour

\* an operation: the pool get_pool returned to it, the pool its connection
\* belongs to (0 for none), how it ended and where an exception came from
IdleOp == [pc |-> "idle", pool |-> 0, conn |-> 0, outcome |-> "none", error |-> ""]
IdleCloser == [pc |-> "idle", pool |-> 0]

\* a pool as create_pool returns it: open, no connection acquired
NewPool == [status |-> "open", held |-> 0]

\* get_connection begins: pool = await get_pool().  get_pool tests
\* `_pool is None`; with a pool there it returns it without suspending,
\* without one it awaits asyncpg.create_pool(...)
GetPoolEnter(o) ==
    /\ op[o].pc = "idle"
    /\ op' = [op EXCEPT ![o] =
                IF pool = 0 THEN [IdleOp EXCEPT !.pc = "creating"]
                ELSE [IdleOp EXCEPT !.pc = "acquiring", !.pool = pool]]
    /\ UNCHANGED <<parsed, ingest, now, gridVars, last_purge, flightVars,
                   pool, pools, created, closer>>

\* the awaited create_pool ends: its pool is assigned to _pool and returned
\* (no suspension between the two), or its exception leaves get_connection
CreatePool(o, ok) ==
    /\ op[o].pc = "creating"
    /\ ok => Len(pools) < MaxPools
    /\ IF ok
       THEN /\ pools' = Append(pools, NewPool)
            /\ pool' = Len(pools) + 1
            /\ created' = created \cup {Len(pools) + 1}
            /\ op' = [op EXCEPT ![o] = [@ EXCEPT !.pc = "acquiring", !.pool = Len(pools) + 1]]
       ELSE /\ op' = [op EXCEPT ![o] = [@ EXCEPT !.pc = "ended", !.outcome = "raised",
                                                 !.error = "create_pool"]]
            /\ UNCHANGED <<pool, pools, created>>
    /\ UNCHANGED <<parsed, ingest, now, gridVars, last_purge, flightVars, closer>>

\* __aenter__ of pool.acquire(): a connection of the pool, or an exception
\* (a pool that is closing or closed refuses; the store may not answer)
AcquireConn(o, ok) ==
    /\ op[o].pc = "acquiring"
    /\ IF ok /\ pools[op[o].pool].status = "open"
       THEN /\ op' = [op EXCEPT ![o] = [@ EXCEPT !.pc = "body", !.conn = op[o].pool]]
            /\ pools' = [pools EXCEPT ![op[o].pool].held = @ + 1]
       ELSE /\ op' = [op EXCEPT ![o] = [@ EXCEPT !.pc = "ended", !.outcome = "raised",
                                                 !.error = "acquire"]]
            /\ UNCHANGED pools
    /\ UNCHANGED <<parsed, ingest, now, gridVars, last_purge, flightVars,
                   pool, created, closer>>

\* the statements of the operation under `async with get_connection() as conn`
\* end, normally or with an exception thrown back into the generator at yield
OpBody(o, ok) ==
    /\ op[o].pc = "body"
    /\ op' = [op EXCEPT ![o] = [@ EXCEPT !.pc = "exit",
                                        !.outcome = IF ok THEN "returned" ELSE "raised",
                                        !.error = IF ok THEN "" ELSE "body"]]
    /\ UNCHANGED <<parsed, ingest, now, gridVars, last_purge, flightVars,
                   pool, pools, created, closer>>

\* the exit with the release after the yield and no try/finally around it:
\* an exception at the yield passes the release by
aexit_releases_unless_raised(raised) == ~raised

\* __aexit__ of `async with pool.acquire() as conn`: the connection goes back
\* to its pool whether the block ended normally or with an exception
aexit_releases(raised) == TRUE

ExitConn(o) ==
    /\ op[o].pc = "exit"
    /\ IF aexit_releases(op[o].outcome = "raised")
       THEN /\ pools' = [pools EXCEPT ![op[o].conn].held = @ - 1]
            /\ op' = [op EXCEPT ![o] = [@ EXCEPT !.pc = "ended", !.conn = 0]]
       ELSE /\ op' = [op EXCEPT ![o] = [@ EXCEPT !.pc = "ended", !.conn = 0]]
            /\ UNCHANGED pools
    /\ UNCHANGED <<parsed, ingest, now, gridVars, last_purge, flightVars,
                   pool, created, closer>>

\* the caller has the result or the exception; the next operation may begin
OpReturn(o) ==
    /\ op[o].pc = "ended"
    /\ op' = [op EXCEPT ![o] = IdleOp]
    /\ UNCHANGED <<parsed, ingest, now, gridVars, last_purge, flightVars,
                   pool, pools, created, closer>>

\* close_pool begins: `if _pool:` holds and _pool.close() is awaited; the pool
\* takes no new acquire from here on
ClosePoolBegin ==
    /\ closer.pc = "idle"
    /\ pool # 0
    /\ closer' = [pc |-> "closing", pool |-> pool]
    /\ pools' = [pools EXCEPT ![pool].status = "closing"]
    /\ created' = {}
    /\ UNCHANGED <<parsed, ingest, now, gridVars, last_purge, flightVars, pool, op>>

\* _pool.close() ends once every connection of the pool is released; then
\* _pool = None
ClosePoolEnd ==
    /\ closer.pc = "closing"
    /\ pools[closer.pool].held = 0
    /\ pools' = [pools EXCEPT ![closer.pool].status = "closed"]
    /\ pool' = 0
    /\ closer' = IdleCloser
    /\ UNCHANGED <<parsed, ingest, now, gridVars, last_purge, flightVars, created, op>>

\* -------------------------------------------------- parse_drap_data, called
NoParse ==
    [data_string |-> <<>>,
     result |-> [raised |-> FALSE, metadata |-> [k \in {} |-> ""], df_long |-> <<>>]]

\* one call of the parser per behaviour
ParseDrapData(data_string) ==
    /\ parsed = NoParse
    /\ parsed' = [data_string |-> data_string, result |-> parse_drap_data(data_string)]
    /\ UNCHANGED <<now, gridVars, last_purge, flightVars, poolVars, ingest>>

\* ------------------------------------------------------------ SnapshotStore
Retries == 3                \* @task(retries=3) of extract_data

\* loaders.insert_drap_data, its synchronous part: the key of every row is the
\* wall clock read once; row["Frequency_MHz"] raises KeyError on a frame that
\* has no such column, at the first row the comprehension looks at.
FrameKeyError(df_long) ==
    \E k \in 1..Len(df_long) : "Frequency_MHz" \notin DOMAIN df_long[k]

drap_records(df_long, observed_at) ==
    LET kept == SelectSeq(df_long, LAMBDA row : row.Frequency_MHz > 0)
    IN [k \in 1..Len(kept) |->
           [observed_at |-> observed_at, lon |-> kept[k].Longitude,
            lat |-> kept[k].Latitude, frequency_mhz |-> kept[k].Frequency_MHz]]

SameKey(r, rec) ==
    r.observed_at = rec.observed_at /\ r.lon = rec.lon /\ r.lat = rec.lat

\* the statement with the stored row kept: ON CONFLICT ... DO NOTHING
UpsertKeep(table, rec) ==
    IF \E r \in table : SameKey(r, rec) THEN table ELSE table \cup {rec}

\* INSERT ... ON CONFLICT (observed_at, location) DO UPDATE SET frequency_mhz
Upsert(table, rec) == {r \in table : ~SameKey(r, rec)} \cup {rec}

\* conn.executemany(sql, records): the statement once per record, in order,
\* all in one implicit transaction
RECURSIVE executemany_upsert(_, _, _)
executemany_upsert(table, records, n) ==
    IF n = 0 THEN table
    ELSE Upsert(executemany_upsert(table, records, n - 1), records[n])

Stamps(table) == {r.observed_at : r \in table}
Cells(rows) == {[lat |-> r.lat, lon |-> r.lon, value |-> r.frequency_mhz] : r \in rows}

IdleLoad ==
    [pc |-> "idle", df_long |-> <<>>, observed_at |-> NaT, records |-> <<>>, error |-> "",
     fresh |-> FALSE]
\* `checked` is not a local of the flow: it remembers the marker of the last
\* run that reached the load decision and ended without a store failure;
\* `retried_after` names the step whose exception made the task run again.
IdleFlow ==
    [pc |-> "idle", last_seen |-> PyNone, attempt |-> 0, current |-> PyNone,
     df_long |-> <<>>, outcome |-> "none", checked |-> PyNone, retried_after |-> ""]

\* load_data up to the await of executemany: acquire a connection (may fail),
\* ensure_table_exists, then insert_drap_data reads the clock and builds records.
load_begin(c, df_long, up) ==
    load' = [load EXCEPT ![c] =
        IF ~up THEN [IdleLoad EXCEPT !.pc = "raised", !.error = "StoreUnavailable"]
        ELSE IF FrameKeyError(df_long)
             THEN [IdleLoad EXCEPT !.pc = "raised", !.error = "KeyError"]
             ELSE [IdleLoad EXCEPT !.pc = "exec", !.df_long = df_long, !.observed_at = now,
                                   !.records = drap_records(df_long, now)]]

\* a call of the load_data task with a long frame that has the column it reads
LoadDataCall(df_long, up) ==
    /\ load[Direct].pc = "idle"
    /\ load_begin(Direct, df_long, up)
    /\ UNCHANGED <<parsed, poolVars, ingest, now, drap_region, data_last_updated, flow, resp_drap,
                   last_purge, flightVars>>

\* executemany completes: every record upserted and committed, or none
LoadDataExecute(c, up) ==
    /\ load[c].pc = "exec"
    /\ IF up
       THEN /\ drap_region' = executemany_upsert(drap_region, load[c].records, Len(load[c].records))
            /\ load' = [load EXCEPT ![c].pc = "returned",
                                     ![c].fresh = load[c].observed_at \notin Stamps(drap_region)]
       ELSE /\ load' = [load EXCEPT ![c] =
                        [IdleLoad EXCEPT !.pc = "raised", !.error = "StoreUnavailable"]]
            /\ UNCHANGED drap_region
    /\ UNCHANGED <<parsed, poolVars, ingest, now, data_last_updated, flow, resp_drap, last_purge, flightVars>>

LoadDataReturn ==
    /\ load[Direct].pc \in {"returned", "raised"}
    /\ load' = [load EXCEPT ![Direct] = IdleLoad]
    /\ UNCHANGED <<parsed, poolVars, ingest, now, drap_region, data_last_updated, flow, resp_drap,
                   last_purge, flightVars>>

\* ----------------------------------------------------- rap_extract_flow
\* last_seen = await Variable.get("data_last_updated", default=None)
FlowStart(f) ==
    /\ flow[f].pc = "idle"
    /\ flow' = [flow EXCEPT ![f] = [IdleFlow EXCEPT !.pc = "extract",
                                                     !.last_seen = data_last_updated,
                                                     !.checked = flow[f].checked]]
    /\ UNCHANGED <<parsed, poolVars, ingest, now, drap_region, data_last_updated, load, resp_drap,
                   last_purge, flightVars>>

\* extract_data with the marker committed as soon as the payload is in hand
ExtractDataCommitting(f, fetched, text) ==
    /\ flow[f].pc = "extract"
    /\ LET p == parse_drap_data(text) IN
       /\ flow' = [flow EXCEPT ![f] =
             IF fetched /\ ~p.raised
             THEN [@ EXCEPT !.pc = "check", !.df_long = p.df_long,
                            !.current = IF "valid_at" \in DOMAIN p.metadata
                                        THEN p.metadata["valid_at"] ELSE "Unknown"]
             ELSE IF @.attempt < Retries
                  THEN [@ EXCEPT !.attempt = @ + 1,
                                 !.retried_after = IF fetched THEN "parse" ELSE "fetch"]
                  ELSE [IdleFlow EXCEPT !.outcome = IF fetched THEN "parse_failed"
                                                    ELSE "fetch_failed",
                                        !.checked = flow[f].checked]]
       /\ data_last_updated' = IF fetched THEN "Unknown" ELSE data_last_updated
    /\ UNCHANGED <<parsed, poolVars, ingest, now, drap_region, load, resp_drap, last_purge, flightVars>>

\* extract_data, one attempt of the task: fetch, then parse; an exception of
\* either is retried up to Retries times, then the flow run fails.
ExtractData(f, fetched, text) ==
    /\ flow[f].pc = "extract"
    /\ LET p == parse_drap_data(text) IN
       flow' = [flow EXCEPT ![f] =
          IF fetched /\ ~p.raised
          THEN [@ EXCEPT !.pc = "check", !.df_long = p.df_long,
                         !.current = IF "valid_at" \in DOMAIN p.metadata
                                     THEN p.metadata["valid_at"] ELSE "Unknown"]
          ELSE IF @.attempt < Retries
               THEN [@ EXCEPT !.attempt = @ + 1,
                                 !.retried_after = IF fetched THEN "parse" ELSE "fetch"]
               ELSE [IdleFlow EXCEPT !.outcome = IF fetched THEN "parse_failed"
                                                 ELSE "fetch_failed",
                                     !.checked = flow[f].checked]]
    /\ UNCHANGED <<parsed, poolVars, ingest, now, drap_region, data_last_updated, load, resp_drap,
                   last_purge, flightVars>>

\* the comparison turned round
should_load_equal(last_seen, current_updated) == last_seen = current_updated

\* if last_seen == current_updated: ... else: load
should_load(last_seen, current_updated) == last_seen # current_updated

FlowCheck(f) ==
    /\ flow[f].pc = "check"
    /\ flow' = [flow EXCEPT ![f] =
          IF should_load(@.last_seen, @.current)
          THEN [@ EXCEPT !.pc = "load"]
          ELSE [IdleFlow EXCEPT !.outcome = "skipped", !.checked = flow[f].current]]
    /\ UNCHANGED <<parsed, poolVars, ingest, now, drap_region, data_last_updated, load, resp_drap,
                   last_purge, flightVars>>

\* await load_data(df_long): the flow's load_data run starts
FlowLoad(f, up) ==
    /\ flow[f].pc = "load"
    /\ load[f].pc = "idle"
    /\ load_begin(f, flow[f].df_long, up)
    /\ flow' = [flow EXCEPT ![f].pc = "loading"]
    /\ UNCHANGED <<parsed, poolVars, ingest, now, drap_region, data_last_updated, resp_drap,
                   last_purge, flightVars>>

\* the flow with the marker committed whether or not load_data raised
FlowAfterLoadAlways(f) ==
    /\ flow[f].pc = "loading"
    /\ load[f].pc \in {"returned", "raised"}
    /\ data_last_updated' = flow[f].current
    /\ flow' = [flow EXCEPT ![f] =
            [IdleFlow EXCEPT !.outcome = IF load[f].pc = "returned" THEN "loaded" ELSE "failed",
                             !.checked = flow[f].current]]
    /\ load' = [load EXCEPT ![f] = IdleLoad]
    /\ UNCHANGED <<parsed, poolVars, ingest, now, drap_region, resp_drap, last_purge, flightVars>>

\* load_data has ended: on its exception the flow run fails there; otherwise
\* await Variable.set("data_last_updated", current_updated), which is called
\* without overwrite=True and so raises when the variable already exists.
FlowAfterLoad(f) ==
    /\ flow[f].pc = "loading"
    /\ load[f].pc \in {"returned", "raised"}
    /\ IF load[f].pc = "returned"
       THEN /\ data_last_updated' =
                    IF data_last_updated = PyNone THEN flow[f].current ELSE data_last_updated
            /\ flow' = [flow EXCEPT ![f] =
                    [IdleFlow EXCEPT !.outcome = IF data_last_updated = PyNone
                                                 THEN "loaded" ELSE "failed",
                                     !.checked = flow[f].current]]
       ELSE /\ UNCHANGED data_last_updated
            /\ flow' = [flow EXCEPT ![f] =
                    [IdleFlow EXCEPT !.outcome = "failed",
                                     !.checked = IF load[f].error = "StoreUnavailable"
                                                 THEN flow[f].checked ELSE flow[f].current]]
    /\ load' = [load EXCEPT ![f] = IdleLoad]
    /\ UNCHANGED <<parsed, poolVars, ingest, now, drap_region, resp_drap, last_purge, flightVars>>


\* ------------------------------------------------------ SnapshotQueryService
\* WITH latest_time AS (SELECT MAX(observed_at) ...): NULL on an empty table
MaxTs(table) == IF table = {} THEN NaT ELSE Max(Stamps(table))

\* the read without its WHERE clause: every stored row
LatestRowsAll(table) == table

\* FROM drap_region d CROSS JOIN latest_time lt WHERE d.observed_at = lt.max_ts
LatestRows(table) == {r \in table : r.observed_at = MaxTs(table)}

NoResponse == [status |-> 0, timestamp |-> NaT, count |-> 0, features |-> {}]
NotFound == [status |-> 404, timestamp |-> NaT, count |-> 0, features |-> {}]
ServerError == [status |-> 500, timestamp |-> NaT, count |-> 0, features |-> {}]

\* the reader without its `except HTTPException: raise` clause: the 404 it
\* raises is caught by `except Exception` and answered as 500
get_latest_drap_geojson_caught(table, up) ==
    IF ~up \/ table = {} THEN ServerError
    ELSE [status |-> 200, timestamp |-> MaxTs(table),
          count |-> Cardinality(LatestRows(table)), features |-> LatestRows(table)]

\* one statement, so one snapshot of the committed table; `up` is whether the
\* connection and the query succeed
get_latest_drap_geojson(table, up) ==
    IF ~up THEN ServerError
    ELSE LET fc == [timestamp |-> MaxTs(table),
                    count |-> Cardinality(LatestRows(table)),
                    features |-> LatestRows(table)]
         IN IF fc.count = 0 \/ fc.timestamp = NaT
            THEN NotFound
            ELSE [status |-> 200, timestamp |-> fc.timestamp, count |-> fc.count,
                  features |-> fc.features]

GetLatestDrap(up) ==
    /\ resp_drap' = get_latest_drap_geojson(drap_region, up)
    /\ UNCHANGED <<parsed, poolVars, ingest, now, drap_region, data_last_updated, flow, load,
                   last_purge, flightVars>>

\* ---------------------------------------------------------- RetentionManager
\* the comparison made inclusive: WHERE observed_at <= NOW() - INTERVAL ...
cleanup_old_data_inclusive(table, older_than_days) ==
    {r \in table : ~(r.observed_at <= now - older_than_days)}

\* DELETE FROM <table> WHERE observed_at < NOW() - INTERVAL '<days> days'
cleanup_old_data(table, older_than_days) ==
    {r \in table : ~(r.observed_at < now - older_than_days)}

NoPurge ==
    [table |-> "", days |-> 0, flip |-> FALSE, deleted |-> FALSE, store_failed |-> FALSE,
     ended |-> ""]

\* the record of a purge run: its table, its horizon, whether it deleted a
\* row, whether its store operation failed, how the run ended ("returned",
\* "raised", or "completed" for a flow run that ended in the Completed state),
\* and a bit that every run flips
Purged(table, days, before, after, ended) ==
    [table |-> table, days |-> days, flip |-> ~last_purge.flip,
     deleted |-> (before \ after # {}), store_failed |-> FALSE, ended |-> ended]

PurgeFailed(table, days, ended) ==
    [table |-> table, days |-> days, flip |-> ~last_purge.flip,
     deleted |-> FALSE, store_failed |-> TRUE, ended |-> ended]

\* a call of db_tools.cleanup_old_data(conn, "drap_region", days): an error of
\* conn.execute leaves the function as an exception
CleanupOldData(days, up) ==
    /\ IF up
       THEN /\ drap_region' = cleanup_old_data(drap_region, days)
            /\ last_purge' = Purged("drap_region", days, drap_region, drap_region', "returned")
       ELSE /\ last_purge' = PurgeFailed("drap_region", days, "raised")
            /\ UNCHANGED drap_region
    /\ UNCHANGED <<parsed, poolVars, ingest, now, data_last_updated, flow, load, resp_drap, flightVars>>

\* db_maintenance_flow: cleanup_old_data(conn, "drap_region", older_than_days=1);
\* any exception, of get_connection or of the DELETE, is caught by
\* `except Exception`, printed and not raised again: the flow run completes
DbMaintenanceFlow(up) ==
    /\ IF up
       THEN /\ drap_region' = cleanup_old_data(drap_region, 1)
            /\ last_purge' = Purged("drap_region", 1, drap_region, drap_region', "completed")
       ELSE /\ last_purge' = PurgeFailed("drap_region", 1, "completed")
            /\ UNCHANGED drap_region
    /\ UNCHANGED <<parsed, poolVars, ingest, now, data_last_updated, flow, load, resp_drap, flightVars>>

\* --------------------------------------------------------------- the clock
Tick ==
    /\ now < MaxTime
    /\ now' = now + 1
    /\ UNCHANGED <<parsed, poolVars, ingest, gridVars, last_purge, flightVars>>


\* -------------------------------------------------------- TelemetryIngestor
MaxBatch == 2               \* rows of a fetched frame

\* Raw rows of the fetched frame: the timestamp (NaT when missing), the
\* icao24 cell (PyNone when missing or null) and callsign, which stands for
\* the attributes that are not part of the key.
RawRow(t, id, cs) == [timestamp |-> t, icao24 |-> id, callsign |-> cs]
RawRows ==
    {RawRow(t, "a", cs) : t \in {0, 1}, cs \in {"x", "y"}}
        \cup {RawRow(NaT, "a", "x"), RawRow(0, PyNone, "x"), RawRow(0, "", "x"),
              RawRow(0, " ", "y")}

RECURSIVE SeqsUpTo(_, _)
SeqsUpTo(S, n) ==
    IF n = 0 THEN {<<>>}
    ELSE LET shorter == SeqsUpTo(S, n - 1)
         IN shorter \cup {Append(q, x) : q \in {p \in shorter : Len(p) = n - 1}, x \in S}

Frames == SeqsUpTo(RawRows, MaxBatch)

\* str(x): None prints as "None"; .strip() removes the blanks around the text
PyStr(v) == IF v = PyNone THEN "None" ELSE v
Strip(s) == IF s = " " THEN "" ELSE s

\* clean_row: get_ts("timestamp"), str(row.get("icao24")).strip(),
\* get_val("callsign", str) (None for an empty cell)
clean_row(row) ==
    [time |-> row.timestamp,
     icao24 |-> Strip(PyStr(row.icao24)),
     callsign |-> IF row.callsign = "" THEN PyNone ELSE row.callsign]

\* records = [r for r in records if r[0] is not None and r[1]]
KeepRecord(r) == r.time # NaT /\ r.icao24 # ""

CleanRecords(df) == SelectSeq([k \in 1..Len(df) |-> clean_row(df[k])], KeepRecord)

\* the natural key (time, icao24) of flight_states
SameFlightKey(r, rec) == r.time = rec.time /\ r.icao24 = rec.icao24

\* the insert as an overwrite: ON CONFLICT ... DO UPDATE
InsertOverwrite(table, rec) ==
    {r \in table : ~SameFlightKey(r, rec)} \cup {rec}

\* INSERT INTO flight_states ... ON CONFLICT DO NOTHING
InsertDoNothing(table, rec) ==
    IF \E r \in table : SameFlightKey(r, rec) THEN table ELSE table \cup {rec}

RECURSIVE executemany_insert(_, _, _)
executemany_insert(table, records, n) ==
    IF n = 0 THEN table
    ELSE InsertDoNothing(executemany_insert(table, records, n - 1), records[n])

\* flight_states is partitioned by time, one partition per day;
\* create_partition_if_missing(ts) creates the partition of ts when absent.
PartitionOf(t) == t
create_partition_if_missing(parts, ts) == parts \cup {PartitionOf(ts)}

\* how an insert_batch run ended; `at` is the clock reading of a stored batch
\* and `oldest` the earliest time among its records
NoBatch ==
    [outcome |-> "none", kept |-> 0, shadowed |-> 0, added |-> 0, error |-> "",
     at |-> NaT, oldest |-> NaT]

OldestOf(records) ==
    CHOOSE t \in {records[k].time : k \in 1..Len(records)} :
        \A k \in 1..Len(records) : t <= records[k].time

\* what the log of first submissions becomes with a batch that was stored
FirstOf(log, records) ==
    log \cup {records[k] : k \in {n \in 1..Len(records) :
                 /\ ~\E r \in log : SameFlightKey(r, records[n])
                 /\ ~\E m \in 1..(n - 1) : SameFlightKey(records[m], records[n])}}

\* records of the batch that met a stored row with other attributes
Shadowed(table, records) ==
    Cardinality({n \in 1..Len(records) :
        \E r \in table : SameFlightKey(r, records[n]) /\ r # records[n]})

\* the (time, icao24) pairs of the batch that no stored row has
NewKeys(table, records) ==
    {<<records[n].time, records[n].icao24>> : n \in {k \in 1..Len(records) :
        ~\E r \in table : SameFlightKey(r, records[k])}}

\* the records ahead of the first one that has no partition
BeforeFailure(records, parts) ==
    LET bad == {k \in 1..Len(records) : PartitionOf(records[k].time) \notin parts}
    IN IF bad = {} THEN records
       ELSE SubSeq(records, 1, (CHOOSE k \in bad : \A m \in bad : k <= m) - 1)

\* insert_batch with executemany outside a transaction: the rows inserted
\* ahead of a failing record stay
InsertBatchPartial(df, up) ==
    LET records == CleanRecords(df) IN
    /\ IF df = <<>> \/ records = <<>>
       THEN /\ batch_result' = [NoBatch EXCEPT !.outcome = "returned"]
            /\ UNCHANGED <<flight_states, partitions, first_insert>>
       ELSE IF ~up
       THEN /\ batch_result' = [NoBatch EXCEPT !.outcome = "raised", !.kept = Len(records),
                                               !.error = "StoreUnavailable"]
            /\ UNCHANGED <<flight_states, partitions, first_insert>>
       ELSE LET parts == create_partition_if_missing(partitions, records[1].time)
                done == BeforeFailure(records, parts)
                stored == executemany_insert(flight_states, done, Len(done))
            IN /\ partitions' = parts
               /\ flight_states' = stored
               /\ first_insert' = FirstOf(first_insert, done)
               /\ batch_result' =
                     IF done = records
                     THEN [outcome |-> "inserted", kept |-> Len(records),
                           shadowed |-> Shadowed(stored, records),
                           added |-> Cardinality(NewKeys(flight_states, records)),
                           error |-> "", at |-> now, oldest |-> OldestOf(records)]
                     ELSE [NoBatch EXCEPT !.outcome = "raised", !.kept = Len(records),
                                          !.error = "NoPartition"]
    /\ UNCHANGED <<parsed, poolVars, ingest, now, gridVars, last_purge, resp_flights>>

\* insert_batch(df): `up` is whether the connection and the statements succeed;
\* a record whose partition does not exist makes its INSERT fail, and with it
\* the implicit transaction of executemany
insert_batch(df, up) ==
    LET records == CleanRecords(df) IN
    /\ IF df = <<>> \/ records = <<>>
       THEN /\ batch_result' = [NoBatch EXCEPT !.outcome = "returned"]
            /\ UNCHANGED <<flight_states, partitions, first_insert>>
       ELSE IF ~up
       THEN /\ batch_result' = [NoBatch EXCEPT !.outcome = "raised", !.kept = Len(records),
                                               !.error = "StoreUnavailable"]
            /\ UNCHANGED <<flight_states, partitions, first_insert>>
       ELSE LET parts == create_partition_if_missing(partitions, records[1].time)
                stored == executemany_insert(flight_states, records, Len(records))
            IN /\ partitions' = parts
               /\ IF \A k \in 1..Len(records) : PartitionOf(records[k].time) \in parts
                  THEN /\ flight_states' = stored
                       /\ first_insert' = FirstOf(first_insert, records)
                       /\ batch_result' = [outcome |-> "inserted", kept |-> Len(records),
                                           shadowed |-> Shadowed(stored, records),
                                           added |-> Cardinality(NewKeys(flight_states, records)),
                                           error |-> "", at |-> now,
                                           oldest |-> OldestOf(records)]
                  ELSE /\ batch_result' = [NoBatch EXCEPT !.outcome = "raised",
                                                          !.kept = Len(records),
                                                          !.error = "NoPartition"]
                       /\ UNCHANGED <<flight_states, first_insert>>
    /\ UNCHANGED <<parsed, poolVars, now, gridVars, last_purge, resp_flights>>

\* a run of the insert_batch task outside an ingest_flow run
InsertBatch(df, up) == insert_batch(df, up) /\ UNCHANGED ingest

\* ------------------------------------------------------------ ingest_flow
FetchRetries == 3           \* @task(retries=3) of fetch_flights

IdleIngest == [pc |-> "idle", attempt |-> 0, df |-> <<>>, outcome |-> "none"]

\* ingest_flow is triggered: df = fetch_flights() comes first
IngestStart ==
    /\ ingest.pc = "idle"
    /\ ingest' = [IdleIngest EXCEPT !.pc = "fetch"]
    /\ UNCHANGED <<parsed, poolVars, now, gridVars, last_purge, flightVars>>

\* fetch_flights, one attempt of the task: rest.states(); its exception is
\* logged and raised again, and the task is run again up to FetchRetries
\* times, after which the flow run fails
FetchFlights(ok, df) ==
    /\ ingest.pc = "fetch"
    /\ ingest' = IF ok THEN [ingest EXCEPT !.pc = "insert", !.df = df]
                 ELSE IF ingest.attempt < FetchRetries
                      THEN [ingest EXCEPT !.attempt = @ + 1]
                      ELSE [IdleIngest EXCEPT !.outcome = "fetch_failed"]
    /\ UNCHANGED <<parsed, poolVars, now, gridVars, last_purge, flightVars>>

\* await insert_batch(df): the task has no retries, its exception ends the run
IngestInsert(up) ==
    /\ ingest.pc = "insert"
    /\ insert_batch(ingest.df, up)
    /\ ingest' = [IdleIngest EXCEPT !.outcome = IF batch_result'.outcome = "raised"
                                                 THEN "failed" ELSE "completed"]

\* the comparison made inclusive: DELETE ... WHERE time <= cutoff
cleanup_db_inclusive(table, retention_days) ==
    {r \in table : ~(r.time <= now - retention_days)}

\* cleanup_db: cutoff = now - retention_days; DELETE ... WHERE time < cutoff
cleanup_db(table, retention_days) == {r \in table : ~(r.time < now - retention_days)}

\* the cleanup_db task: an error of get_connection or of the DELETE leaves it
\* as an exception
CleanupDb(retention_days, up) ==
    /\ IF up
       THEN /\ flight_states' = cleanup_db(flight_states, retention_days)
            /\ first_insert' = {r \in first_insert :
                                   \E s \in flight_states' : SameFlightKey(r, s)}
            /\ last_purge' = Purged("flight_states", retention_days, flight_states,
                                        flight_states', "returned")
       ELSE /\ last_purge' = PurgeFailed("flight_states", retention_days, "raised")
            /\ UNCHANGED <<flight_states, first_insert>>
    /\ UNCHANGED <<parsed, poolVars, ingest, now, gridVars, partitions, batch_result, resp_flights>>

\* WITH latest_time AS (SELECT MAX(time) ...) ... WHERE fs.time = lt.max_time
LatestFlights(table) ==
    {r \in table : \A s \in table : s.time <= r.time}

get_latest_flight_states(table, up) ==
    IF ~up THEN ServerError
    ELSE LET rows == LatestFlights(table) IN
         IF rows = {} THEN NotFound
         ELSE [status |-> 200, timestamp |-> (CHOOSE r \in rows : TRUE).time,
               count |-> Cardinality(rows), features |-> rows]

GetLatestFlightStates(up) ==
    /\ resp_flights' = get_latest_flight_states(flight_states, up)
    /\ UNCHANGED <<parsed, poolVars, ingest, now, gridVars, last_purge, flight_states, partitions, batch_result,
                   first_insert>>

\* ----------------------------------------------------------- specifications
Init ==
    /\ now = 0
    /\ drap_region = {}
    /\ data_last_updated = PyNone
    /\ flow = [f \in FlowIds |-> IdleFlow]
    /\ load = [c \in Callers |-> IdleLoad]
    /\ resp_drap = NoResponse
    /\ last_purge = NoPurge
    /\ flight_states = {}
    /\ partitions = {}
    /\ batch_result = NoBatch
    /\ resp_flights = NoResponse
    /\ first_insert = {}
    /\ parsed = NoParse
    /\ ingest = IdleIngest
    /\ pool = 0
    /\ pools = <<>>
    /\ created = {}
    /\ op = [o \in OpIds |-> IdleOp]
    /\ closer = IdleCloser

\* the grid pipeline: one rap_extract_flow run at a time and the load_data
\* runs of other callers
Next ==
    \/ FlowStart("f1")
    \/ \E fetched \in BOOLEAN, text \in Upstream : ExtractData("f1", fetched, text)
    \/ FlowCheck("f1")
    \/ \E up \in BOOLEAN : FlowLoad("f1", up)
    \/ FlowAfterLoad("f1")
    \/ \E df \in DirectFrames, up \in BOOLEAN : LoadDataCall(df, up)
    \/ \E c \in Callers, up \in BOOLEAN : LoadDataExecute(c, up)
    \/ LoadDataReturn

Spec == Init /\ [][Next]_vars

\* grid writes by load_data, the maintenance flow and the grid reader
NextSnapshot ==
    \/ Tick
    \/ \E df \in DirectFrames, up \in BOOLEAN : LoadDataCall(df, up)
    \/ \E up \in BOOLEAN : LoadDataExecute(Direct, up)
    \/ LoadDataReturn
    \/ \E up \in BOOLEAN : DbMaintenanceFlow(up)
    \/ \E up \in BOOLEAN : GetLatestDrap(up)

SpecSnapshot == Init /\ [][NextSnapshot]_vars

\* telemetry ingestion
NextFlights == \E df \in Frames, up \in BOOLEAN : InsertBatch(df, up)

SpecFlights == Init /\ [][NextFlights]_vars

\* retention on both tables, with the writes that fill them
SmallFrames == {<<RawRow(t, "a", "x")>> : t \in {0, 1}}

NextRetention ==
    \/ Tick
    \/ LoadDataCall(FrequencyFrame(GridA), TRUE)
    \/ LoadDataExecute(Direct, TRUE)
    \/ LoadDataReturn
    \/ \E df \in SmallFrames : InsertBatch(df, TRUE)
    \/ \E days \in {0, 1, 3650}, up \in BOOLEAN : CleanupOldData(days, up)
    \/ \E days \in {0, 1, 3650}, up \in BOOLEAN : CleanupDb(days, up)

SpecRetention == Init /\ [][NextRetention]_vars

\* two rap_extract_flow runs at once on one payload, the fetch and the store
\* never failing, beside load_data runs of other callers and insert_batch runs
NextOverlap ==
    \/ \E f \in FlowIds :
          \/ FlowStart(f)
          \/ ExtractData(f, TRUE, TextOf("m1", GridA))
          \/ FlowCheck(f)
          \/ FlowLoad(f, TRUE)
          \/ FlowAfterLoad(f)
    \/ LoadDataCall(FrequencyFrame(GridB), TRUE)
    \/ \E c \in Callers : LoadDataExecute(c, TRUE)
    \/ LoadDataReturn
    \/ \E df \in SmallFrames : InsertBatch(df, TRUE)

SpecOverlap == Init /\ [][NextOverlap]_vars

\* the write and maintenance cycles with a store that may fail
NextFailures ==
    \/ \E df \in DirectFrames, up \in BOOLEAN : LoadDataCall(df, up)
    \/ \E up \in BOOLEAN : LoadDataExecute(Direct, up)
    \/ LoadDataReturn
    \/ \E df \in SmallFrames, up \in BOOLEAN : InsertBatch(df, up)
    \/ \E up \in BOOLEAN : CleanupDb(3, up)
    \/ \E up \in BOOLEAN : DbMaintenanceFlow(up)

SpecFailures == Init /\ [][NextFailures]_vars

\* the two polling cycles with their retried fetch tasks: a rap_extract_flow
\* run and an ingest_flow run, the upstreams and the store failing or not
NextRetry ==
    \/ FlowStart("f1")
    \/ \E fetched \in BOOLEAN, text \in Upstream : ExtractData("f1", fetched, text)
    \/ FlowCheck("f1")
    \/ \E up \in BOOLEAN : FlowLoad("f1", up)
    \/ FlowAfterLoad("f1")
    \/ IngestStart
    \/ \E ok \in BOOLEAN, df \in SmallFrames : FetchFlights(ok, df)
    \/ \E up \in BOOLEAN : IngestInsert(up)

SpecRetry == Init /\ [][NextRetry]_vars

\* the grid pipeline of Next with cycles that keep being triggered and steps
\* that keep being taken: a fetch or a store operation may fail, but the fetch
\* of the payload with marker "m1" and the store operations of the cycle's
\* load succeed again and again
FairCycles ==
    /\ WF_vars(FlowStart("f1"))
    /\ SF_vars(ExtractData("f1", TRUE, TextOf("m1", GridA)))
    /\ WF_vars(FlowCheck("f1"))
    /\ SF_vars(FlowLoad("f1", TRUE))
    /\ SF_vars(LoadDataExecute("f1", TRUE))
    /\ WF_vars(FlowAfterLoad("f1"))

SpecLive == Init /\ [][Next]_vars /\ FairCycles

\* operations that use get_connection, at once, and close_pool
NextPool ==
    \/ \E o \in OpIds :
          \/ GetPoolEnter(o)
          \/ \E ok \in BOOLEAN : CreatePool(o, ok)
          \/ \E ok \in BOOLEAN : AcquireConn(o, ok)
          \/ \E ok \in BOOLEAN : OpBody(o, ok)
          \/ ExitConn(o)
          \/ OpReturn(o)
    \/ ClosePoolBegin
    \/ ClosePoolEnd

SpecPool == Init /\ [][NextPool]_vars

\* the parser on its own, over the payloads of ParserTexts
NextParser == \E data_string \in ParserTexts : ParseDrapData(data_string)

SpecParser == Init /\ [][NextParser]_vars

\* the two read endpoints, with the writes that fill their tables
NextQuery ==
    \/ \E up \in BOOLEAN : LoadDataCall(FrequencyFrame(GridA), up)
    \/ \E up \in BOOLEAN : LoadDataExecute(Direct, up)
    \/ LoadDataReturn
    \/ \E df \in SmallFrames \cup {<<>>}, up \in BOOLEAN : InsertBatch(df, up)
    \/ \E up \in BOOLEAN : GetLatestDrap(up)
    \/ \E up \in BOOLEAN : GetLatestFlightStates(up)

SpecQuery == Init /\ [][NextQuery]_vars


\* ------------------------------------------------------------------ claims
PositiveCells(df_long) ==
    {[lat |-> df_long[k].Latitude, lon |-> df_long[k].Longitude,
      value |-> df_long[k].Frequency_MHz] :
        k \in {n \in 1..Len(df_long) : df_long[n].Frequency_MHz > 0}}

OneGeneration(resp) ==
    resp.status = 200 =>
        /\ resp.count = Cardinality(resp.features)
        /\ resp.count > 0
        /\ \A r \in resp.features : r.observed_at = resp.timestamp

\* C1: every latest-snapshot read of drap_region, the last one answered and
\* the one that would be answered in the current state (while a write is in
\* progress or after it), returns rows that all carry one observed_at; and
\* once a write under a new observed_at T2 has completed and T2 is the newest
\* stored generation, the read returns exactly the cells of that write's
\* frame whose value is > 0, with count their number.
C1_LatestSnapshotIsolation ==
    LET fc == get_latest_drap_geojson(drap_region, TRUE)
        w == load[Direct]
    IN /\ OneGeneration(resp_drap)
       /\ OneGeneration(fc)
       /\ (w.pc = "returned" /\ w.fresh /\ w.observed_at = MaxTs(drap_region)) =>
             /\ fc.status = 200
             /\ fc.timestamp = w.observed_at
             /\ Cells(fc.features) = PositiveCells(w.df_long)
             /\ fc.count = Cardinality(PositiveCells(w.df_long))

\* a read answered after the write at T2 completed, with an older generation
\* T1 < T2 of another payload still stored
C1_Witness ==
    /\ load[Direct].pc = "returned"
    /\ load[Direct].fresh
    /\ resp_drap.status = 200
    /\ resp_drap.timestamp = load[Direct].observed_at
    /\ resp_drap.count = Cardinality(PositiveCells(load[Direct].df_long))
    /\ \E r \in drap_region :
          /\ r.observed_at < load[Direct].observed_at
          /\ [lat |-> r.lat, lon |-> r.lon, value |-> r.frequency_mhz]
                \notin PositiveCells(load[Direct].df_long)


C3_UnchangedMarkerNoLoad ==
    \A f \in FlowIds :
        flow[f].pc \in {"load", "loading"} => flow[f].current # flow[f].checked

\* C4: the cycle leaves the change check towards load_data exactly when the
\* stored marker and the current one differ as strings, and otherwise ends
\* skipped; with no marker stored it loads whatever the current marker is.
C4_LoadDecision ==
    [][\A f \in FlowIds :
        (flow[f].pc = "check" /\ flow'[f].pc # "check")
        => /\ (flow'[f].pc = "load") <=> (flow[f].last_seen # flow[f].current)
           /\ (flow'[f].pc # "load") =>
                 (flow'[f].pc = "idle" /\ flow'[f].outcome = "skipped")
           /\ (flow[f].last_seen = PyNone) => (flow'[f].pc = "load")]_vars

\* a first run on a payload that carries no validity line goes on to load
C4_Witness ==
    /\ flow["f1"].pc = "load"
    /\ flow["f1"].last_seen = PyNone
    /\ flow["f1"].current = "Unknown"

\* C5: the marker changes only in the step after the cycle's load_data has
\* returned, to the cycle's current marker; a flow's write starts only from a
\* cycle that fetched, parsed and decided to load; and when load_data raised
\* the cycle ends failed with the marker as it was.
C5_MarkerAfterWrite ==
    [][\A f \in FlowIds :
        /\ (data_last_updated' # data_last_updated) =>
              \E g \in FlowIds :
                  /\ flow[g].pc = "loading"
                  /\ load[g].pc = "returned"
                  /\ data_last_updated' = flow[g].current
        /\ (load[f].pc = "idle" /\ load'[f].pc # "idle") =>
              /\ flow[f].pc = "load"
              /\ flow[f].df_long # <<>>
              /\ flow[f].last_seen # flow[f].current
        /\ (flow[f].pc = "loading" /\ load[f].pc = "raised" /\ flow'[f].pc = "idle") =>
              /\ data_last_updated' = data_last_updated
              /\ flow'[f].outcome = "failed"]_vars

\* load_data raised in a cycle, the marker stayed as it was, and the next
\* cycle took the same payload to load_data again
C5_Witness ==
    /\ flow["f1"].pc = "loading"
    /\ load["f1"].pc = "raised"
    /\ flow["f1"].checked = flow["f1"].current
    /\ data_last_updated = flow["f1"].last_seen

\* C6 as claimed: when the load_data of a cycle has ended and the store did
\* not fail, a row with the cell's coordinates and value is stored for every
\* parsed cell whose value is > 0, and for no other parsed cell.
C6_FilterCorrectness ==
    \A f \in FlowIds :
        (/\ flow[f].pc = "loading"
         /\ load[f].pc \in {"returned", "raised"}
         /\ load[f].error # "StoreUnavailable")
        => \A k \in 1..Len(flow[f].df_long) :
              LET cell == flow[f].df_long[k] IN
              (\E r \in drap_region :
                  /\ r.lat = cell.Latitude
                  /\ r.lon = cell.Longitude
                  /\ r.frequency_mhz = cell.Absorption)
              <=> (cell.Absorption > 0)

\* C7: after any sequence of insert_batch calls flight_states holds one row
\* per (time, icao24) pair, a row for every pair of a batch that was stored,
\* and each row carries the attributes of the first record stored with that
\* pair, whether the duplicate came in the same batch or in a later call.
C7_FirstWriteWins ==
    /\ \A r1, r2 \in flight_states : SameFlightKey(r1, r2) => r1 = r2
    /\ flight_states = first_insert

\* a stored batch held a record whose pair was already taken by a row with
\* other attributes
C7_Witness ==
    /\ batch_result.outcome = "inserted"
    /\ batch_result.shadowed > 0
    /\ flight_states # {}

\* C8 as claimed: no stored row comes from a raw row without a timestamp or
\* with a missing, null or empty icao24 (a null icao24 reads "None" once
\* clean_row has made its text of it).
C8_NoKeylessRows ==
    \A r \in flight_states : r.time # NaT /\ r.icao24 \notin {"", "None"}

\* C9 as claimed: a purge with horizon 0 leaves its table empty.
C9_HorizonZeroDeletesAll ==
    [][(last_purge' # last_purge /\ ~last_purge'.store_failed /\ last_purge'.days = 0)
       => IF last_purge'.table = "drap_region"
          THEN drap_region' = {}
          ELSE flight_states' = {}]_vars

\* C9 amended: a purge keeps exactly the rows whose time key is not before
\* now minus the horizon and leaves the other table alone; so horizon 0
\* deletes the rows stamped before now and keeps a row stamped at now or
\* later, and a horizon of ten years deletes nothing.
C9_PurgeRule ==
    [][(last_purge' # last_purge /\ ~last_purge'.store_failed)
       => LET days == last_purge'.days IN
          /\ (last_purge'.table = "drap_region") =>
                /\ drap_region' = {r \in drap_region : r.observed_at >= now - days}
                /\ flight_states' = flight_states
          /\ (last_purge'.table = "flight_states") =>
                /\ flight_states' = {r \in flight_states : r.time >= now - days}
                /\ drap_region' = drap_region
          /\ (days = 3650) => (drap_region' = drap_region /\ flight_states' = flight_states)
          /\ (days = 0 /\ last_purge'.table = "drap_region") =>
                drap_region' = {r \in drap_region : r.observed_at >= now}
          /\ (days = 0 /\ last_purge'.table = "flight_states") =>
                flight_states' = {r \in flight_states : r.time >= now}]_vars

\* a purge of drap_region with a horizon of one day deleted the rows older
\* than the cutoff and kept the rows on it
C9_Witness ==
    /\ last_purge.table = "drap_region"
    /\ last_purge.days = 1
    /\ last_purge.deleted
    /\ \E r \in drap_region : r.observed_at = now - 1

\* C10: with the store answering, each reader gives 404 exactly when its table
\* has no rows and 200 otherwise; it gives 500 exactly when the store
\* operation fails; and every response a reader has given is one of these.
C10_EmptyIsNotFailure ==
    /\ \A up \in BOOLEAN :
          LET d == get_latest_drap_geojson(drap_region, up)
              f == get_latest_flight_states(flight_states, up)
          IN /\ (d.status = 500) <=> ~up
             /\ (f.status = 500) <=> ~up
             /\ (d.status = 404) <=> (up /\ drap_region = {})
             /\ (f.status = 404) <=> (up /\ flight_states = {})
             /\ (d.status = 200) <=> (up /\ drap_region # {})
             /\ (f.status = 200) <=> (up /\ flight_states # {})
    /\ (resp_drap.status = 404) => (resp_drap.count = 0 /\ resp_drap.features = {})
    /\ (resp_flights.status = 404) => (resp_flights.count = 0 /\ resp_flights.features = {})
    /\ (resp_drap.status = 200) => (drap_region # {} /\ resp_drap.count > 0)
    /\ (resp_flights.status = 200) => (flight_states # {} /\ resp_flights.count > 0)

\* one reader answered 404 on its empty table while the other answered 200
C10_Witness ==
    /\ resp_drap.status = 404
    /\ drap_region = {}
    /\ resp_flights.status = 200
    /\ flight_states # {}

\* C11: while a cycle is fetching and parsing, none of its steps changes
\* drap_region or the stored marker or starts its load_data, and a cycle that
\* leaves that phase without a parsed payload has ended as failed: an abort on
\* fetch or parse leaves both exactly as they were when the cycle started.
C11_CleanAbort ==
    [][\A f \in FlowIds :
        (flow[f].pc \in {"idle", "extract"} /\ flow'[f] # flow[f])
        => /\ drap_region' = drap_region
           /\ data_last_updated' = data_last_updated
           /\ load[f].pc = "idle" /\ load'[f].pc = "idle"
           /\ (flow[f].pc = "extract" /\ flow'[f].pc = "idle") =>
                 flow'[f].outcome \in {"fetch_failed", "parse_failed"}
           /\ (flow[f].pc = "extract" /\ flow'[f].pc = "extract") =>
                 flow'[f].attempt = flow[f].attempt + 1]_vars

\* a cycle gave up on a payload that does not parse while rows of an earlier
\* write are stored
C11_Witness ==
    /\ flow["f1"].pc = "idle"
    /\ flow["f1"].outcome = "parse_failed"
    /\ drap_region # {}
    /\ data_last_updated = PyNone

\* the data lines of a payload, in order
DataLinesOf(data_string) == SelectSeq(data_string, LAMBDA l : l.kind = "data")

\* C12 as claimed: a payload in which a data line has a count of values other
\* than the number of longitude bands, or in which a data line is passed over,
\* makes parse_drap_data raise.
C12_RaggedLineFails ==
    LET ds == DataLinesOf(parsed.data_string) IN
    (\E k \in 1..Len(ds) : Len(ds[k].values) # NumLon \/ ds[k].bars # 1)
        => parsed.result.raised

\* C13 as claimed: when two rap_extract_flow runs on the same payload are
\* both past their load_data, with the store answering, both ended without an
\* error; and flight_states never holds two rows for one (time, icao24).
C13_OverlappingWritersSafe ==
    /\ (\A f \in FlowIds :
           /\ flow[f].pc = "loading"
           /\ load[f].pc \in {"returned", "raised"}
           /\ load[f].error # "StoreUnavailable"
           /\ flow[f].current = flow["f1"].current)
       => \A f \in FlowIds : load[f].pc = "returned"
    /\ \A r1, r2 \in flight_states : SameFlightKey(r1, r2) => r1 = r2

\* C14: an insert_batch call that ends raised leaves flight_states as it was;
\* one that ends inserted adds one row for each (time, icao24) of its kept
\* records that was not stored and takes none away; flight_states changes in
\* no other way.
C14_BatchAtomicity ==
    [][/\ (batch_result'.outcome \in {"raised", "returned"}) => flight_states' = flight_states
       /\ (flight_states' # flight_states) =>
             /\ batch_result'.outcome = "inserted"
             /\ flight_states \subseteq flight_states'
             /\ Cardinality(flight_states') = Cardinality(flight_states) + batch_result'.added
             /\ batch_result'.added <= batch_result'.kept]_vars

\* a batch failed on a record without a partition while rows of an earlier
\* batch are stored
C14_Witness ==
    /\ batch_result.outcome = "raised"
    /\ batch_result.error = "NoPartition"
    /\ batch_result.kept > 1
    /\ flight_states # {}

\* C15 as claimed: a purge with a horizon > 0 that runs at the clock reading
\* at which insert_batch stored a batch deletes no row of that batch.
C15_PurgeSparesSameCycleRows ==
    [][(/\ last_purge'.flip # last_purge.flip
        /\ ~last_purge'.store_failed
        /\ last_purge'.days > 0
        /\ last_purge'.table = "flight_states"
        /\ batch_result.outcome = "inserted"
        /\ batch_result.at = now)
       => \A r \in flight_states :
             r.time >= batch_result.oldest => r \in flight_states']_vars

\* C15 amended: a purge with a horizon > 0, wherever it falls among the steps
\* of the writers, deletes only rows whose time key is strictly older than now
\* minus the horizon; so it keeps the rows load_data has just written when
\* their observed_at is not older than that, and the rows of a batch whose
\* earliest time is not older than that (a row with an older upstream time is
\* deleted however recently it was written); and a purge of what a purge left,
\* at the same clock reading, deletes nothing.
C15_PurgeSafe ==
    [][(/\ last_purge'.flip # last_purge.flip
        /\ ~last_purge'.store_failed
        /\ last_purge'.days > 0) =>
             LET cutoff == now - last_purge'.days
                 days == last_purge'.days IN
             /\ \A r \in drap_region \ drap_region' : r.observed_at < cutoff
             /\ \A r \in flight_states \ flight_states' : r.time < cutoff
             /\ (load[Direct].pc = "returned" /\ load[Direct].observed_at >= cutoff) =>
                   \A r \in drap_region :
                       r.observed_at = load[Direct].observed_at => r \in drap_region'
             /\ (batch_result.outcome = "inserted" /\ batch_result.oldest >= cutoff) =>
                   \A r \in flight_states :
                       r.time >= batch_result.oldest => r \in flight_states'
             /\ (last_purge'.table = "drap_region") =>
                   cleanup_old_data(drap_region', days) = drap_region'
             /\ (last_purge'.table = "flight_states") =>
                   cleanup_db(flight_states', days) = flight_states']_vars

\* a purge of flight_states with a horizon of one day deleted rows and kept
\* the row whose time is the cutoff itself
C15_Witness ==
    /\ last_purge.table = "flight_states"
    /\ last_purge.days = 1
    /\ last_purge.deleted
    /\ \E r \in flight_states : r.time = now - 1

\* C16: when a write of insert_drap_data completes, every record it wrote is
\* stored with the value written, a record whose (observed_at, location) was
\* already stored has taken the place of that row (one row per key, the row
\* count grown only by the records with a new key), and the rows with other
\* keys are as they were.
C16_LastWriteWins ==
    [][(load[Direct].pc = "exec" /\ load'[Direct].pc = "returned") =>
          LET records == load[Direct].records
              written == {records[k] : k \in 1..Len(records)}
              collided == {r \in drap_region : \E rec \in written : SameKey(r, rec)}
          IN /\ written \subseteq drap_region'
             /\ drap_region' = (drap_region \ collided) \cup written
             /\ \A r1, r2 \in drap_region' : SameKey(r1, r2) => r1 = r2
             /\ Cardinality(drap_region') =
                   Cardinality(drap_region) + Cardinality(written) - Cardinality(collided)
             /\ \A r \in collided : \E rec \in written :
                   /\ SameKey(r, rec)
                   /\ rec \in drap_region'
                   /\ (r.frequency_mhz # rec.frequency_mhz => r \notin drap_region')]_vars

\* a write met rows of its own clock reading written from another frame: a
\* cell both frames have holds the value written last, beside a cell only
\* the earlier frame has
C16_Witness ==
    LET w == load[Direct]
        mine == {r \in drap_region : r.observed_at = w.observed_at}
    IN /\ w.pc = "returned"
       /\ ~w.fresh
       /\ PositiveCells(w.df_long) \subseteq Cells(mine)
       /\ \E r \in mine : [lat |-> r.lat, lon |-> r.lon, value |-> r.frequency_mhz]
                              \notin PositiveCells(w.df_long)
       /\ \E r \in mine, c \in PositiveCells(FrequencyFrame(GridA)) :
             r.lat = c.lat /\ r.lon = c.lon /\ r.frequency_mhz # c.value

\* a payload whose data lines are one per latitude band, each with one "|"
\* and one value per longitude band
WellFormed(data_string) ==
    LET ds == DataLinesOf(data_string) IN
    /\ Len(ds) = NumLat
    /\ \A k \in 1..Len(ds) : ds[k].bars = 1 /\ Len(ds[k].values) = NumLon

\* C17 as claimed: the long output of a well-formed payload lists the cells
\* in row-major order: entry (i - 1) * NumLon + j is the j-th value of the
\* i-th data line, at the i-th latitude and the j-th longitude.
C17_RowMajor ==
    (parsed # NoParse /\ WellFormed(parsed.data_string) /\ ~parsed.result.raised) =>
        LET ds == DataLinesOf(parsed.data_string)
            out == parsed.result.df_long
        IN /\ Len(out) = NumLat * NumLon
           /\ \A i \in 1..NumLat, j \in 1..NumLon :
                 out[(i - 1) * NumLon + j] =
                     [Latitude |-> lat[i], Longitude |-> long[j], Absorption |-> ds[i].values[j]]

\* C17 amended: the long output of a well-formed payload holds, for the i-th
\* data line and its j-th value, the i-th latitude, the j-th longitude and
\* that value, every pair of bands exactly once, in column-major order: entry
\* (j - 1) * NumLat + i, all latitudes of the first longitude band first.
C17_ColumnMajor ==
    (parsed # NoParse /\ WellFormed(parsed.data_string) /\ ~parsed.result.raised) =>
        LET ds == DataLinesOf(parsed.data_string)
            out == parsed.result.df_long
        IN /\ Len(out) = NumLat * NumLon
           /\ \A i \in 1..NumLat, j \in 1..NumLon :
                 out[(j - 1) * NumLat + i] =
                     [Latitude |-> lat[i], Longitude |-> long[j], Absorption |-> ds[i].values[j]]
           /\ \A k1, k2 \in 1..Len(out) :
                 (out[k1].Latitude = out[k2].Latitude /\ out[k1].Longitude = out[k2].Longitude)
                     => k1 = k2

\* a well-formed payload was parsed: its second entry is the first value of
\* the second data line, at the second latitude
C17_Witness ==
    /\ parsed # NoParse
    /\ WellFormed(parsed.data_string)
    /\ ~parsed.result.raised
    /\ "valid_at" \in DOMAIN parsed.result.metadata
    /\ parsed.result.df_long[2] =
          [Latitude |-> lat[2], Longitude |-> long[1], Absorption |-> ParserRow(2)[1]]

\* C18 as claimed: a payload whose data lines are well formed parses whatever
\* its comment lines are; a comment line with a key outside the schema adds
\* nothing to the metadata, and one that names a schema key without its " :"
\* leaves that key absent.
C18_BestEffortMetadata ==
    (parsed # NoParse /\ WellFormed(parsed.data_string)) =>
        /\ ~parsed.result.raised
        /\ \A n \in 1..Len(parsed.data_string) :
              LET l == parsed.data_string[n] IN
              /\ (l.kind = "comment" /\ ~IsMetaKey(l.key)) =>
                    DOMAIN parsed.result.metadata \subseteq
                        {MetaName(parsed.data_string[m].key) :
                            m \in {x \in 1..Len(parsed.data_string) :
                                     IsMetaKey(parsed.data_string[x].key)}}
              /\ (l.kind = "comment" /\ IsMetaKey(l.key) /\ l.key # "Product:" /\ ~l.sep) =>
                    MetaName(l.key) \notin DOMAIN parsed.result.metadata

\* C19 as claimed: no insert_batch call fails for want of a partition: when
\* the records are inserted a partition exists for the time of each of them.
C19_PartitionForEveryRecord ==
    /\ batch_result.error # "NoPartition"
    /\ \A r \in flight_states : PartitionOf(r.time) \in partitions

\* C20 as claimed: a run of load_data, insert_batch, cleanup_db or
\* db_maintenance_flow whose store operation failed ended as a failure.
C20_FailuresPropagate ==
    /\ \A c \in Callers : (load[c].error = "StoreUnavailable") => load[c].pc = "raised"
    /\ (batch_result.error = "StoreUnavailable") => batch_result.outcome = "raised"
    /\ last_purge.store_failed => last_purge.ended = "raised"

\* C21 as claimed: the fetch task of a cycle is attempted at most 1 + 3
\* times; a task is run again only after its fetch failed; a cycle that has
\* left its fetch task never returns to it and ends as loaded, skipped or
\* failed, one that gives up ends as failed on fetch or parse; and a new
\* cycle starts with no attempt counted.
C21_BoundedFetchRetry ==
    [][/\ \A f \in FlowIds :
            /\ flow'[f].attempt <= Retries
            /\ (flow[f].pc = "extract" /\ flow'[f].attempt = flow[f].attempt + 1) =>
                  flow'[f].retried_after = "fetch"
            /\ (flow[f].pc \in {"check", "load", "loading"}) => flow'[f].pc # "extract"
            /\ (flow[f].pc # "idle" /\ flow'[f].pc = "idle") =>
                  flow'[f].outcome \in
                      {"loaded", "skipped", "failed", "fetch_failed", "parse_failed"}
            /\ (flow[f].pc = "idle" /\ flow'[f].pc # "idle") =>
                  flow'[f].attempt = 0 /\ flow'[f].retried_after = ""
       /\ ingest'.attempt <= FetchRetries
       /\ (ingest.pc = "insert") => ingest'.pc # "fetch"
       /\ (ingest.pc # "idle" /\ ingest'.pc = "idle") =>
             ingest'.outcome \in {"completed", "failed", "fetch_failed"}
       /\ (ingest.pc = "idle" /\ ingest'.pc # "idle") => ingest'.attempt = 0]_vars

\* C22 as claimed: when the load_data of a grid cycle has ended and the store
\* did not fail, it returned; the rows it wrote are one per parsed cell whose
\* value is > 0 (4 of the 6 cells of the grid [[1, 0, 5], [3, -2, 7]]), all
\* under the one observed_at of the call; and the latest snapshot is answered
\* with that observed_at and holds every one of those cells.
C22_OneGenerationPerWrite ==
    \A f \in FlowIds :
        (/\ flow[f].pc = "loading"
         /\ load[f].pc \in {"returned", "raised"}
         /\ load[f].error # "StoreUnavailable")
        => LET df == flow[f].df_long
               positive == {[lat |-> df[k].Latitude, lon |-> df[k].Longitude,
                             value |-> df[k].Absorption] :
                               k \in {n \in 1..Len(df) : df[n].Absorption > 0}}
               written == {r \in drap_region : r.observed_at = load[f].observed_at}
               fc == get_latest_drap_geojson(drap_region, TRUE)
           IN /\ load[f].pc = "returned"
              /\ Len(load[f].records) = Cardinality(positive)
              /\ \A k \in 1..Len(load[f].records) :
                    load[f].records[k].observed_at = load[f].observed_at
              /\ positive \subseteq Cells(written)
              /\ fc.status = 200
              /\ fc.timestamp = load[f].observed_at
              /\ positive \subseteq Cells(fc.features)
              /\ fc.count >= Cardinality(positive)

\* C23: a connection acquired through get_connection is held only by an
\* operation that is inside its `async with` block; each pool counts exactly
\* the connections of those operations; so an operation that has ended,
\* normally or with an exception of create_pool, of acquire or of its own
\* statements, holds none, and when no operation is in progress no
\* connection of any pool is held.
C23_ScopedConnections ==
    /\ \A o \in OpIds : (op[o].conn # 0) => op[o].pc \in {"body", "exit"}
    /\ \A o \in OpIds : (op[o].pc = "body") => op[o].conn = op[o].pool
    /\ \A i \in 1..Len(pools) :
          pools[i].held = Cardinality({o \in OpIds : op[o].conn = i})
    /\ (\A o \in OpIds : op[o].pc \in {"idle", "ended"}) =>
          \A i \in 1..Len(pools) : pools[i].held = 0

\* an operation ended with an exception of its own statements and another
\* returned, and no connection is held
C23_Witness ==
    /\ op["o1"].pc = "ended"
    /\ op["o1"].error = "body"
    /\ op["o2"].pc = "ended"
    /\ op["o2"].outcome = "returned"
    /\ pools # <<>>
    /\ \A i \in 1..Len(pools) : pools[i].held = 0

\* C24 as claimed: at most one pool has been created since close_pool last
\* began, and every operation that has a pool which is not closing or closed
\* has the one _pool names.
C24_SingletonPool ==
    /\ Cardinality(created) <= 1
    /\ \A o \in OpIds :
          (op[o].pool # 0 /\ pools[op[o].pool].status = "open") => op[o].pool = pool

\* C26 as claimed: with the upstream serving the payload with marker "m1"
\* while no marker is stored, cycles that keep being triggered and fetches
\* and store operations that keep succeeding, eventually the stored marker is
\* "m1" and the latest snapshot holds the cells > 0 of that payload's grid.
C26_EventuallyStored ==
    <>(/\ data_last_updated = "m1"
       /\ Cells(LatestRows(drap_region)) = PositiveCells(FrequencyFrame(GridA)))

====
